---- MODULE Spec2Model ----
(***************************************************************************)
(* A model of cv_automation.py: the CVAutomation object, its parsing       *)
(* methods, the slide population, the traceability log and run().          *)
(*                                                                         *)
(* Text is modelled as a sequence of one-character strings, so that        *)
(* slicing, trimming, splitting and str() rendering are computed and not   *)
(* assumed.  A path is the text of the path; the file system is the set    *)
(* `exists` plus what each reader hands back when it is called.            *)
(***************************************************************************)
EXTENDS Integers, Sequences, FiniteSets, TLC

VARIABLES
    cv_path,               \* self.cv_path
    instructions_path,     \* self.instructions_path
    template_path,         \* self.template_path
    job_description_path,  \* self.job_description_path (NoneVal when not given)
    exists,                \* which of the four input files exist on disk
    cv_data,               \* self.cv_data
    instructions,          \* self.instructions
    job_requirements,      \* self.job_requirements
    traceability_log,      \* self.traceability_log
    sources,               \* what the methods were handed: CV text, table, JD lines, template, data
    prs,                   \* the presentation handle being populated
    ppt_file,              \* the slide document on disk: "none", "partial", "saved"
    report_file,           \* the traceability report on disk (NoneVal when not written)
    stages,                \* the methods entered so far, in order
    pc                     \* the next step of the caller

vars == <<cv_path, instructions_path, template_path, job_description_path, exists,
          cv_data, instructions, job_requirements, traceability_log, sources,
          prs, ppt_file, report_file, stages, pc>>

----------------------------------------------------------------------------
(* Bounds of the model *)

\* most rows of an instruction table
MaxRows == 2
\* most lines of a job description
MaxJdLines == 2
\* most slides already in a template
MaxSlides == 2
\* most slide layouts of a template
MaxLayouts == 8
\* how far past a threshold the longest generated text goes
Over == 40

----------------------------------------------------------------------------
(* Python values *)

NoneVal == [none |-> TRUE]

EmptyDict == <<>>

Min(a, b) == IF a < b THEN a ELSE b

----------------------------------------------------------------------------
(* Text *)

Whitespace == {" ", "\t", "\n", "\r"}

UpperCase == <<"A", "B", "C", "D", "E", "F", "G", "H", "I", "J", "K", "L", "M", "N", "O", "P", "Q", "R", "S", "T", "U", "V", "W", "X", "Y", "Z">>

LowerCase == <<"a", "b", "c", "d", "e", "f", "g", "h", "i", "j", "k", "l", "m", "n", "o", "p", "q", "r", "s", "t", "u", "v", "w", "x", "y", "z">>

\* str.lower() of one character
LowerChar(c) ==
    IF \E k \in 1..Len(UpperCase) : UpperCase[k] = c
    THEN LowerCase[CHOOSE k \in 1..Len(UpperCase) : UpperCase[k] = c]
    ELSE c

\* str.lower()
Lower(s) == [i \in 1..Len(s) |-> LowerChar(s[i])]

\* str.rfind(c), 1-based, 0 when absent
RFind(s, c) ==
    IF \E i \in 1..Len(s) : s[i] = c
    THEN CHOOSE i \in 1..Len(s) : s[i] = c /\ \A j \in (i+1)..Len(s) : s[j] # c
    ELSE 0

\* str.strip()
Strip(s) ==
    IF \A i \in 1..Len(s) : s[i] \in Whitespace
    THEN <<>>
    ELSE LET a == CHOOSE i \in 1..Len(s) :
                     s[i] \notin Whitespace /\ \A j \in 1..(i-1) : s[j] \in Whitespace
             b == CHOOSE i \in 1..Len(s) :
                     s[i] \notin Whitespace /\ \A j \in (i+1)..Len(s) : s[j] \in Whitespace
         IN  SubSeq(s, a, b)

\* str.split(sep) for a one-character separator
RECURSIVE Split(_, _)
Split(s, sep) ==
    IF \A i \in 1..Len(s) : s[i] # sep
    THEN <<s>>
    ELSE LET k == CHOOSE i \in 1..Len(s) : s[i] = sep /\ \A j \in 1..(i-1) : s[j] # sep
         IN  <<SubSeq(s, 1, k-1)>> \o Split(SubSeq(s, k+1, Len(s)), sep)

\* sep.join(parts)
RECURSIVE Join(_, _)
Join(parts, sep) ==
    IF parts = <<>> THEN <<>>
    ELSE IF Len(parts) = 1 THEN parts[1]
    ELSE parts[1] \o sep \o Join(Tail(parts), sep)

\* the concatenation of a sequence of texts
RECURSIVE Concat(_)
Concat(parts) == IF parts = <<>> THEN <<>> ELSE parts[1] \o Concat(Tail(parts))

----------------------------------------------------------------------------
(* str() of Python values, as _log_traceability needs it *)

\* the escape of one character inside repr() of a str quoted with q
EscapeChar(c, q) ==
    IF c = "\n" THEN <<"\\", "n">>
    ELSE IF c = "\t" THEN <<"\\", "t">>
    ELSE IF c = "\r" THEN <<"\\", "r">>
    ELSE IF c = "\\" THEN <<"\\", "\\">>
    ELSE IF c = q THEN <<"\\", c>>
    ELSE <<c>>

NeedsEscape(s, q) == \E i \in 1..Len(s) : s[i] \in {"\n", "\t", "\r", "\\", q}

\* repr() of a str
ReprStr(s) ==
    LET q == IF (\E i \in 1..Len(s) : s[i] = "'") /\ ~(\E i \in 1..Len(s) : s[i] = "\"")
             THEN "\"" ELSE "'"
        body == IF NeedsEscape(s, q)
                THEN Concat([i \in 1..Len(s) |-> EscapeChar(s[i], q)])
                ELSE s
    IN  <<q>> \o body \o <<q>>

\* repr() of a list whose items are already rendered
ReprList(items) == <<"[">> \o Join(items, <<",", " ">>) \o <<"]">>

\* one 'key': value item of a dict
ReprItem(key, rendered) == ReprStr(key) \o <<":", " ">> \o rendered

\* repr() of a dict whose items are already rendered
ReprDict(items) == <<"{">> \o Join(items, <<",", " ">>) \o <<"}">>

----------------------------------------------------------------------------
(* pathlib *)

\* Path.name: the last component
PathName(p) == SubSeq(p, RFind(p, "/") + 1, Len(p))

\* Path.suffix: from the last dot of the name, unless the dot leads or ends it
PathSuffix(p) ==
    LET name == PathName(p)
        i == RFind(name, ".")
    IN  IF 1 < i /\ i < Len(name) THEN SubSeq(name, i, Len(name)) ELSE <<>>

----------------------------------------------------------------------------
(* The clock *)

\* datetime.now().isoformat()
NowIso == <<"2", "0", "2", "6", "-", "1", "1", "-", "0", "5", "T", "0", "6", ":", "1", "2", ":", "0", "0", ".", "1", "2", "3", "4", "5", "6">>

\* datetime.now().strftime('%Y%m%d_%H%M%S')
NowStamp == <<"2", "0", "2", "6", "1", "1", "0", "5", "_", "0", "6", "1", "2", "0", "0">>

----------------------------------------------------------------------------
(* _log_traceability *)

\* max_length
max_length == 500

Ellipsis == <<".", ".", ".">>

\* the summary cut one character late
DataSummaryCutLate(data_str) ==
    IF Len(data_str) > max_length
    THEN SubSeq(data_str, 1, max_length + 1) \o Ellipsis
    ELSE data_str

\* the summary of a data string: cut at max_length, marked when cut
DataSummary(data_str) ==
    IF Len(data_str) > max_length
    THEN SubSeq(data_str, 1, max_length) \o Ellipsis
    ELSE data_str

\* the log after _log_traceability(step, description, data), data_str = str(data)
LogTraceability(log, step, description, data_str) ==
    Append(log, [timestamp    |-> NowIso,
                 step         |-> step,
                 description  |-> description,
                 data_summary |-> DataSummary(data_str)])

\* the steps of a log, in order
Steps(log) == [i \in 1..Len(log) |-> log[i].step]

----------------------------------------------------------------------------
(* validate_inputs *)

Ext_xlsx == <<".", "x", "l", "s", "x">>
Ext_xls == <<".", "x", "l", "s">>
Ext_pptx == <<".", "p", "p", "t", "x">>
Ext_txt == <<".", "t", "x", "t">>
Ext_pdf == <<".", "p", "d", "f">>
Ext_docx == <<".", "d", "o", "c", "x">>

\* validate_inputs without its two extension checks
ValidateInputsAnyExtension ==
    /\ "cv" \in exists
    /\ "instructions" \in exists
    /\ "template" \in exists
    /\ ~(job_description_path # NoneVal /\ "job_description" \notin exists)

\* the value validate_inputs returns
ValidateInputs ==
    /\ "cv" \in exists
    /\ "instructions" \in exists
    /\ Lower(PathSuffix(instructions_path)) \in {Ext_xlsx, Ext_xls}
    /\ "template" \in exists
    /\ Lower(PathSuffix(template_path)) = Ext_pptx
    /\ ~(job_description_path # NoneVal /\ "job_description" \notin exists)

----------------------------------------------------------------------------
(* parse_cv *)

\* the length of the summary placeholder
SummaryLength == 200

\* _extract_cv_sections with the whole text for a summary
ExtractCvSectionsUncut(text) ==
    [summary        |-> text,
     experience     |-> <<>>,
     education      |-> <<>>,
     skills         |-> <<>>,
     certifications |-> <<>>]

\* _extract_cv_sections
ExtractCvSections(text) ==
    [summary        |-> IF Len(text) > SummaryLength THEN SubSeq(text, 1, SummaryLength) ELSE text,
     experience     |-> <<>>,
     education      |-> <<>>,
     skills         |-> <<>>,
     certifications |-> <<>>]

CvFromFile == <<"C", "V", " ", "f", "r", "o", "m", " ", "f", "i", "l", "e", ":", " ">>

UnsupportedFormat == <<"U", "n", "s", "u", "p", "p", "o", "r", "t", "e", "d", " ", "f", "o", "r", "m", "a", "t", ":", " ">>

\* raw_text with no placeholder for the formats that are not read
RawTextAsRead(path, text) == text

\* raw_text as parse_cv sets it; text is what read_text returns for a .txt file
RawText(path, text) ==
    LET file_extension == Lower(PathSuffix(path))
    IN  IF file_extension = Ext_txt THEN text
        ELSE IF file_extension \in {Ext_pdf, Ext_docx} THEN CvFromFile \o PathName(path)
        ELSE UnsupportedFormat \o PathName(path)

\* whether parse_cv reads the file
ReadsCvFile(path) == Lower(PathSuffix(path)) = Ext_txt

\* the cv_data dict parse_cv builds
CvData(path, text) ==
    [file_path   |-> path,
     file_name   |-> PathName(path),
     parsed_date |-> NowIso,
     sections    |-> ExtractCvSections(RawText(path, text)),
     raw_text    |-> RawText(path, text)]

\* str() of the sections dict
StrSections(s) ==
    ReprDict(<<ReprItem(<<"s", "u", "m", "m", "a", "r", "y">>, ReprStr(s.summary)),
               ReprItem(<<"e", "x", "p", "e", "r", "i", "e", "n", "c", "e">>, ReprStr(s.experience)),
               ReprItem(<<"e", "d", "u", "c", "a", "t", "i", "o", "n">>, ReprStr(s.education)),
               ReprItem(<<"s", "k", "i", "l", "l", "s">>, ReprStr(s.skills)),
               ReprItem(<<"c", "e", "r", "t", "i", "f", "i", "c", "a", "t", "i", "o", "n", "s">>, ReprStr(s.certifications))>>)

\* str(cv_data)
StrCvData(d) ==
    ReprDict(<<ReprItem(<<"f", "i", "l", "e", "_", "p", "a", "t", "h">>, ReprStr(d.file_path)),
               ReprItem(<<"f", "i", "l", "e", "_", "n", "a", "m", "e">>, ReprStr(d.file_name)),
               ReprItem(<<"p", "a", "r", "s", "e", "d", "_", "d", "a", "t", "e">>, ReprStr(d.parsed_date)),
               ReprItem(<<"s", "e", "c", "t", "i", "o", "n", "s">>, StrSections(d.sections)),
               ReprItem(<<"r", "a", "w", "_", "t", "e", "x", "t">>, ReprStr(d.raw_text))>>)

----------------------------------------------------------------------------
(* parse_instructions *)

\* a cell of the table pandas hands back: a str, or NaN for a blank cell
StrCell(s) == [kind |-> "str", text |-> s]

NanCell == [kind |-> "nan", text |-> <<>>]

\* row.get(column), whose default is not the empty string
RowGetNoDefault(row, column) == IF column \in DOMAIN row THEN row[column] ELSE NanCell

\* row.get(column, '')
RowGet(row, column) == IF column \in DOMAIN row THEN row[column] ELSE StrCell(<<>>)

\* the rule one row becomes
MappingRule(row) ==
    [section |-> RowGet(row, "Section"),
     field   |-> RowGet(row, "Field"),
     rule    |-> RowGet(row, "Rule"),
     value   |-> RowGet(row, "Value")]

\* the rules list the loop over df.iterrows() builds
Rules(df) == [i \in 1..Len(df.rows) |-> MappingRule(df.rows[i])]

\* the instructions dict parse_instructions builds
Instructions(path, df) ==
    [file_path   |-> path,
     parsed_date |-> NowIso,
     rules       |-> Rules(df),
     mappings    |-> EmptyDict,
     raw_data    |-> df.rows]

\* the text of a column name
ColumnText(c) ==
    CASE c = "Section" -> <<"S", "e", "c", "t", "i", "o", "n">>
      [] c = "Field"   -> <<"F", "i", "e", "l", "d">>
      [] c = "Rule"    -> <<"R", "u", "l", "e">>
      [] c = "Value"   -> <<"V", "a", "l", "u", "e">>
      [] c = "Notes"   -> <<"N", "o", "t", "e", "s">>

\* repr() of a cell
ReprCell(cell) == IF cell.kind = "nan" THEN <<"n", "a", "n">> ELSE ReprStr(cell.text)

\* str() of one rule
StrRule(r) ==
    ReprDict(<<ReprItem(<<"s", "e", "c", "t", "i", "o", "n">>, ReprCell(r.section)),
               ReprItem(<<"f", "i", "e", "l", "d">>, ReprCell(r.field)),
               ReprItem(<<"r", "u", "l", "e">>, ReprCell(r.rule)),
               ReprItem(<<"v", "a", "l", "u", "e">>, ReprCell(r.value))>>)

\* str() of one record of df.to_dict('records'), its keys in column order
StrRecord(columns, row) ==
    ReprDict([k \in 1..Len(columns) |-> ReprItem(ColumnText(columns[k]), ReprCell(row[columns[k]]))])

\* str(instructions)
StrInstructions(d, columns) ==
    ReprDict(<<ReprItem(<<"f", "i", "l", "e", "_", "p", "a", "t", "h">>, ReprStr(d.file_path)),
               ReprItem(<<"p", "a", "r", "s", "e", "d", "_", "d", "a", "t", "e">>, ReprStr(d.parsed_date)),
               ReprItem(<<"r", "u", "l", "e", "s">>, ReprList([i \in 1..Len(d.rules) |-> StrRule(d.rules[i])])),
               ReprItem(<<"m", "a", "p", "p", "i", "n", "g", "s">>, <<"{", "}">>),
               ReprItem(<<"r", "a", "w", "_", "d", "a", "t", "a">>,
                        ReprList([i \in 1..Len(d.raw_data) |-> StrRecord(columns, d.raw_data[i])]))>>)

----------------------------------------------------------------------------
(* parse_job_description *)

\* the filter with >= for >
KeepLineFromTen(stripped) == stripped # <<>> /\ Len(stripped) >= 10

\* the filter of the requirements comprehension, on a stripped line
KeepLine(stripped) == stripped # <<>> /\ Len(stripped) > 10

\* the requirements comprehension
Requirements(jd_text) ==
    LET lines == Split(jd_text, "\n")
        stripped == [i \in 1..Len(lines) |-> Strip(lines[i])]
    IN  SelectSeq(stripped, KeepLine)

\* the job_requirements dict parse_job_description builds
JobRequirements(path, jd_text) ==
    [file_path    |-> path,
     parsed_date  |-> NowIso,
     raw_text     |-> jd_text,
     requirements |-> Requirements(jd_text),
     key_skills   |-> <<>>]

\* str(job_requirements)
StrJobRequirements(d) ==
    ReprDict(<<ReprItem(<<"f", "i", "l", "e", "_", "p", "a", "t", "h">>, ReprStr(d.file_path)),
               ReprItem(<<"p", "a", "r", "s", "e", "d", "_", "d", "a", "t", "e">>, ReprStr(d.parsed_date)),
               ReprItem(<<"r", "a", "w", "_", "t", "e", "x", "t">>, ReprStr(d.raw_text)),
               ReprItem(<<"r", "e", "q", "u", "i", "r", "e", "m", "e", "n", "t", "s">>,
                        ReprList([i \in 1..Len(d.requirements) |-> ReprStr(d.requirements[i])])),
               ReprItem(<<"k", "e", "y", "_", "s", "k", "i", "l", "l", "s">>, ReprList(d.key_skills))>>)

----------------------------------------------------------------------------
(* _populate_slides *)

\* the layout index the code prefers for a blank slide
PreferredLayout == 6

\* blank_layout_index without the clamp
BlankLayoutIndexUnclamped(p) == PreferredLayout

\* blank_layout_index
BlankLayoutIndex(p) == Min(PreferredLayout, Len(p.layouts) - 1)

\* whether prs.slide_layouts[index] exists (Python indexing, 0-based)
LayoutExists(p, index) == -Len(p.layouts) <= index /\ index < Len(p.layouts)

\* whether _populate_slides raises: only the layout lookup can
PopulateRaises(p) == Len(p.slides) = 0 /\ ~LayoutExists(p, BlankLayoutIndex(p))

\* prs.slides.add_slide(layout): a slide with the layout's placeholders, no text boxes
NewSlide(p, index) ==
    [layout |-> index, has_title |-> p.layouts[index + 1], shapes |-> <<>>]

\* slide.shapes.add_textbox(left, top, width, height), in inches, with its text set
TextBox(left, top, width, height, text, word_wrap) ==
    [left |-> left, top |-> top, width |-> width, height |-> height,
     text |-> text, word_wrap |-> word_wrap]

DefaultTitle == <<"C", "V", " ", "S", "u", "m", "m", "a", "r", "y">>

SummaryHeading == <<"S", "u", "m", "m", "a", "r", "y", ":", "\n">>

NoSummaryAvailable == <<"N", "o", " ", "s", "u", "m", "m", "a", "r", "y", " ", "a", "v", "a", "i", "l", "a", "b", "l", "e">>

\* the text the body region gets; a fresh text box is empty
BodyText(cvd) ==
    IF DOMAIN cvd # {} /\ "sections" \in DOMAIN cvd
    THEN SummaryHeading \o (IF "summary" \in DOMAIN cvd.sections
                            THEN cvd.sections.summary
                            ELSE NoSummaryAvailable)
    ELSE <<>>

\* the slides after the get-or-create step
WithFirstSlide(p) ==
    IF Len(p.slides) = 0
    THEN Append(p.slides, NewSlide(p, BlankLayoutIndex(p)))
    ELSE p.slides

\* the slide populated: a title region when it has no title, then the body region
PopulatedSlide(slide, cvd) ==
    LET titled == IF ~slide.has_title
                  THEN Append(slide.shapes, TextBox(1, 1, 8, 1, DefaultTitle, FALSE))
                  ELSE slide.shapes
    IN  [slide EXCEPT !.shapes = Append(titled, TextBox(1, 2, 8, 4, BodyText(cvd), TRUE))]

\* the presentation after _populate_slides(prs), when it does not raise
PopulateSlides(p, cvd) ==
    LET slides == WithFirstSlide(p)
    IN  [p EXCEPT !.slides = [slides EXCEPT ![1] = PopulatedSlide(slides[1], cvd)]]

----------------------------------------------------------------------------
(* generate_powerpoint and generate_traceability_report *)

OutputDir == <<"o", "u", "t", "/">>

\* output_path of generate_powerpoint
PptPath == OutputDir \o <<"C", "V", "_", "P", "r", "e", "s", "e", "n", "t", "a", "t", "i", "o", "n", "_">> \o NowStamp \o Ext_pptx

\* str({'output_path': str(output_path)})
StrOutput(path) == ReprDict(<<ReprItem(<<"o", "u", "t", "p", "u", "t", "_", "p", "a", "t", "h">>, ReprStr(path))>>)

\* len(d.get(key, {})) for a dict d whose value at key is a dict
LenOfDict(d, key) == IF key \in DOMAIN d THEN Cardinality(DOMAIN d[key]) ELSE 0

\* len(d.get(key, [])) for a dict d whose value at key is a list
LenOfList(d, key) == IF key \in DOMAIN d THEN Len(d[key]) ELSE 0

\* the report dict generate_traceability_report builds
Report ==
    [generated_at   |-> NowIso,
     inputs         |-> [cv              |-> cv_path,
                         instructions    |-> instructions_path,
                         template        |-> template_path,
                         job_description |-> job_description_path],
     processing_log |-> traceability_log,
     summary        |-> [total_steps           |-> Len(traceability_log),
                         cv_sections_extracted |-> LenOfDict(cv_data, "sections"),
                         instruction_rules     |-> LenOfList(instructions, "rules")]]

NoReport == [state |-> "none", content |-> EmptyDict]

----------------------------------------------------------------------------
(* What the files can hold *)

\* an Optional[Path] that is given
Some(p) == [none |-> FALSE, path |-> p]

CvPaths == {<<"c", "v", ".", "t", "x", "t">>, <<"i", "n", "/", "C", "V", ".", "T", "X", "T">>, <<"c", "v", ".", "p", "d", "f">>, <<"i", "n", "/", "c", "v", ".", "d", "o", "c", "x">>, <<"c", "v", ".", "r", "t", "f">>, <<"c", "v">>}

InstructionPaths == {<<"r", "u", "l", "e", "s", ".", "x", "l", "s", "x">>, <<"r", "u", "l", "e", "s", ".", "X", "L", "S">>, <<"r", "u", "l", "e", "s", ".", "c", "s", "v">>}

TemplatePaths == {<<"t", ".", "p", "p", "t", "x">>, <<"T", ".", "P", "P", "T", "X">>, <<"t", ".", "p", "p", "t">>}

JdPath == <<"j", "d", ".", "t", "x", "t">>

Pattern == <<"E", "x", "p", "e", "r", "i", "e", "n", "c", "e", "d", " ", "e", "n", "g", "i", "n", "e", "e", "r", " ">>

\* a text of n characters
Text(n) == [i \in 1..n |-> Pattern[((i - 1) % Len(Pattern)) + 1]]

\* the CV texts a run reads
RunCvTexts == {Text(n) : n \in {0, 30, SummaryLength + Over}}

\* the CV texts a direct call of parse_cv reads
CvTexts ==
    {Text(n) : n \in {0, 1, 30, SummaryLength - 1, SummaryLength, SummaryLength + 1,
                      SummaryLength + Over}}

\* the data strings a direct call of _log_traceability gets
DataStrings ==
    {Text(n) : n \in {0, 1, max_length - 1, max_length, max_length + 1, max_length + 2,
                      max_length + Over}}

\* all sequences over S of length at most n
SeqsUpTo(S, n) == UNION {[1..k -> S] : k \in 0..n}

\* the cells of the three kinds of row
Cell(kind, column) ==
    CASE column = "Section" ->
           StrCell(IF kind = "a" THEN <<"s", "u", "m", "m", "a", "r", "y">>
                   ELSE IF kind = "b" THEN <<"s", "k", "i", "l", "l", "s">> ELSE <<"e", "x", "p", "e", "r", "i", "e", "n", "c", "e">>)
      [] column = "Field" -> StrCell(IF kind = "b" THEN <<"t", "i", "t", "l", "e">> ELSE <<"b", "o", "d", "y">>)
      [] column = "Rule"  -> StrCell(IF kind = "b" THEN <<"t", "r", "u", "n", "c", "a", "t", "e">> ELSE <<"c", "o", "p", "y">>)
      [] column = "Value" -> IF kind = "a" THEN NanCell
                             ELSE StrCell(IF kind = "b" THEN <<"s", "h", "o", "r", "t">> ELSE <<"a", "s", " ", "i", "s">>)
      [] column = "Notes" -> IF kind = "b" THEN NanCell ELSE StrCell(<<"n", "/", "a">>)

RowKinds == {"a", "b", "c"}

ColumnSets ==
    {<<"Section", "Field", "Rule", "Value">>,
     <<"Section", "Field", "Rule">>,
     <<"Value", "Notes", "Field">>}

\* the table with these columns and these kinds of row
DataFrame(columns, kinds) ==
    [columns |-> columns,
     rows    |-> [i \in 1..Len(kinds) |->
                    [c \in {columns[k] : k \in 1..Len(columns)} |-> Cell(kinds[i], c)]]]

\* the tables of at most n rows
DataFrames(n) == {DataFrame(columns, kinds) : columns \in ColumnSets, kinds \in SeqsUpTo(RowKinds, n)}

\* the tables a run reads
RunDataFrames ==
    {DataFrame(<<"Section", "Field", "Rule", "Value">>, <<"a">>),
     DataFrame(<<"Section", "Field", "Rule">>, <<"b", "c">>),
     DataFrame(<<"Value", "Notes", "Field">>, <<>>)}

EmptyDataFrame == [columns |-> <<>>, rows |-> <<>>]

\* a line of a job description: a core that starts and ends with a visible
\* character (or is empty), between two runs of blanks
Line(pad_l, core, pad_r) == [pad_l |-> pad_l, core |-> core, pad_r |-> pad_r]

JdLines ==
    {Line(<<>>, <<>>, <<>>),
     Line(<<" ", " ", " ">>, <<>>, <<>>),
     Line(<<>>, <<"G", "o">>, <<>>),
     Line(<<>>, <<"P", "y", "t", "h", "o", "n", " ", "d", "e", "v">>, <<"\r">>),
     Line(<<" ", " ">>, <<"P", "y", "t", "h", "o", "n", " ", "d", "e", "v">>, <<" ", " ">>),
     Line(<<>>, <<"P", "y", "t", "h", "o", "n", " ", "d", "e", "v", "s">>, <<>>),
     Line(<<"\t">>, <<"M", "u", "s", "t", " ", "h", "a", "v", "e", " ", "5", " ", "y", "e", "a", "r", "s", " ", "P", "y", "t", "h", "o", "n">>, <<" ", "\r">>)}

\* the text of a file with these lines
JdText(lines) ==
    Join([i \in 1..Len(lines) |-> lines[i].pad_l \o lines[i].core \o lines[i].pad_r], <<"\n">>)

\* the job descriptions a run reads
RunJdInputs ==
    {<<>>,
     <<Line(<<>>, <<"M", "u", "s", "t", " ", "h", "a", "v", "e", " ", "5", " ", "y", "e", "a", "r", "s", " ", "P", "y", "t", "h", "o", "n">>, <<>>), Line(<<>>, <<>>, <<>>),
       Line(<<>>, <<"G", "o">>, <<>>), Line(<<>>, <<"E", "x", "c", "e", "l", "l", "e", "n", "t", " ", "c", "o", "m", "m", "u", "n", "i", "c", "a", "t", "i", "o", "n", " ", "s", "k", "i", "l", "l", "s">>, <<>>)>>}

\* a slide already in the template: its text boxes are not modelled
ExistingSlide(has_title) == [layout |-> 0, has_title |-> has_title, shapes |-> <<>>]

\* the templates of at most s slides whose layout count is in counts; a
\* template with a slide has a layout
Templates(s, counts) ==
    {[slides |-> [i \in 1..Len(titles) |-> ExistingSlide(titles[i])],
      layouts |-> [i \in 1..n |-> titled]] :
        <<titles, n, titled>> \in
            {t \in SeqsUpTo(BOOLEAN, s) \X counts \X BOOLEAN : t[1] = <<>> \/ t[2] >= 1}}

\* the templates a run loads
RunTemplates == Templates(1, {0, 1, PreferredLayout + 1})

\* the templates a direct call of _populate_slides gets
AllTemplates == Templates(MaxSlides, 0..MaxLayouts)

EmptyTemplate == [slides |-> <<>>, layouts |-> <<>>]

NothingRead ==
    [cv_text |-> <<>>, df |-> EmptyDataFrame, jd_lines |-> <<>>, template |-> EmptyTemplate,
     data |-> <<>>]

----------------------------------------------------------------------------
(* The object after __init__ *)

Constructed ==
    /\ cv_path \in CvPaths
    /\ instructions_path \in InstructionPaths
    /\ template_path \in TemplatePaths
    /\ job_description_path \in {NoneVal, Some(JdPath)}
    /\ exists \in SUBSET {"cv", "instructions", "template", "job_description"}
    /\ (job_description_path = NoneVal => "job_description" \notin exists)
    /\ cv_data = EmptyDict
    /\ instructions = EmptyDict
    /\ job_requirements = NoneVal
    /\ traceability_log = <<>>
    /\ sources = NothingRead
    /\ prs = NoneVal
    /\ ppt_file = "none"
    /\ report_file = NoReport
    /\ stages = <<>>

\* run() is about to be called
Init == Constructed /\ pc = "validate_inputs"

----------------------------------------------------------------------------
(* The methods, as the steps of a caller: each goes to pc `next` when it    *)
(* returns and to pc `raised` when it raises                                *)

Enter(method) == stages' = Append(stages, method)

\* parse_cv, reading one of texts
DoParseCv(texts, next, raised) ==
    /\ Enter("parse_cv")
    /\ \/ \E text \in (IF ReadsCvFile(cv_path) THEN texts ELSE {<<>>}) :
            /\ cv_data' = CvData(cv_path, text)
            /\ traceability_log' =
                 LogTraceability(traceability_log, "cv_parsing", "Parsed CV file",
                                 StrCvData(cv_data'))
            /\ sources' = [sources EXCEPT !.cv_text = text]
            /\ pc' = next
       \/ \* read_text raises: the file is gone or is not UTF-8
          /\ ReadsCvFile(cv_path)
          /\ pc' = raised
          /\ UNCHANGED <<cv_data, traceability_log, sources>>
    /\ UNCHANGED <<cv_path, instructions_path, template_path, job_description_path, exists,
                   instructions, job_requirements, prs, ppt_file, report_file>>

\* parse_instructions, reading one of tables
DoParseInstructions(tables, next, raised) ==
    /\ Enter("parse_instructions")
    /\ \/ \E df \in tables :
            /\ instructions' = Instructions(instructions_path, df)
            /\ traceability_log' =
                 LogTraceability(traceability_log, "instruction_parsing",
                                 "Parsed instruction file",
                                 StrInstructions(instructions', df.columns))
            /\ sources' = [sources EXCEPT !.df = df]
            /\ pc' = next
       \/ \* pd.read_excel raises; the handler logs and re-raises
          /\ pc' = raised
          /\ UNCHANGED <<instructions, traceability_log, sources>>
    /\ UNCHANGED <<cv_path, instructions_path, template_path, job_description_path, exists,
                   cv_data, job_requirements, prs, ppt_file, report_file>>

\* parse_job_description, reading one of inputs when a path was given
DoParseJobDescription(inputs, next, raised) ==
    /\ Enter("parse_job_description")
    /\ \/ /\ job_description_path = NoneVal
          /\ pc' = next
          /\ UNCHANGED <<job_requirements, traceability_log, sources>>
       \/ /\ job_description_path # NoneVal
          /\ \E lines \in inputs :
               /\ job_requirements' = JobRequirements(job_description_path.path, JdText(lines))
               /\ traceability_log' =
                    LogTraceability(traceability_log, "jd_parsing", "Parsed job description",
                                    StrJobRequirements(job_requirements'))
               /\ sources' = [sources EXCEPT !.jd_lines = lines]
               /\ pc' = next
       \/ \* read_text raises; the handler logs and re-raises
          /\ job_description_path # NoneVal
          /\ pc' = raised
          /\ UNCHANGED <<job_requirements, traceability_log, sources>>
    /\ UNCHANGED <<cv_path, instructions_path, template_path, job_description_path, exists,
                   cv_data, instructions, prs, ppt_file, report_file>>

\* generate_powerpoint with the ppt_generation entry logged before prs.save
DoGeneratePowerpointLogFirst(templates, next, raised) ==
    /\ Enter("generate_powerpoint")
    /\ \/ /\ pc' = raised
          /\ UNCHANGED <<prs, ppt_file, traceability_log, sources>>
       \/ \E template \in templates :
            /\ sources' = [sources EXCEPT !.template = template]
            /\ IF PopulateRaises(template)
               THEN /\ prs' = template
                    /\ pc' = raised
                    /\ UNCHANGED <<ppt_file, traceability_log>>
               ELSE /\ prs' = PopulateSlides(template, cv_data)
                    /\ traceability_log' =
                         LogTraceability(traceability_log, "ppt_generation",
                                         "Generated PowerPoint", StrOutput(PptPath))
                    /\ \/ ppt_file' = "saved" /\ pc' = next
                       \/ ppt_file' \in {"none", "partial"} /\ pc' = raised
    /\ UNCHANGED <<cv_path, instructions_path, template_path, job_description_path, exists,
                   cv_data, instructions, job_requirements, report_file>>

\* generate_powerpoint, loading one of templates
DoGeneratePowerpoint(templates, next, raised) ==
    /\ Enter("generate_powerpoint")
    /\ \/ \* Presentation(template) raises
          /\ pc' = raised
          /\ UNCHANGED <<prs, ppt_file, traceability_log, sources>>
       \/ \E template \in templates :
            /\ sources' = [sources EXCEPT !.template = template]
            /\ IF PopulateRaises(template)
               THEN /\ prs' = template
                    /\ pc' = raised
                    /\ UNCHANGED <<ppt_file, traceability_log>>
               ELSE /\ prs' = PopulateSlides(template, cv_data)
                    /\ \/ \* prs.save wrote the document
                          /\ ppt_file' = "saved"
                          /\ traceability_log' =
                               LogTraceability(traceability_log, "ppt_generation",
                                               "Generated PowerPoint", StrOutput(PptPath))
                          /\ pc' = next
                       \/ \* prs.save raises, before or after it created the file
                          /\ ppt_file' \in {"none", "partial"}
                          /\ pc' = raised
                          /\ UNCHANGED traceability_log
    /\ UNCHANGED <<cv_path, instructions_path, template_path, job_description_path, exists,
                   cv_data, instructions, job_requirements, report_file>>

\* generate_traceability_report
DoGenerateTraceabilityReport(next, raised) ==
    /\ Enter("generate_traceability_report")
    /\ \/ \* the report is written and the file closed
          /\ report_file' = [state |-> "written", content |-> Report]
          /\ pc' = next
       \/ \* open raises (no file) or json.dump raises on a write error (a cut file)
          /\ report_file' \in {NoReport, [state |-> "partial", content |-> EmptyDict]}
          /\ pc' = raised
    /\ UNCHANGED <<cv_path, instructions_path, template_path, job_description_path, exists,
                   cv_data, instructions, job_requirements, traceability_log, sources,
                   prs, ppt_file>>

----------------------------------------------------------------------------
(* run() *)

\* validate_inputs, and the ValueError run() raises when it returns False
Validate ==
    /\ pc = "validate_inputs"
    /\ Enter("validate_inputs")
    /\ pc' = IF ValidateInputs THEN "parse_cv" ELSE "failed"
    /\ UNCHANGED <<cv_path, instructions_path, template_path, job_description_path, exists,
                   cv_data, instructions, job_requirements, traceability_log, sources,
                   prs, ppt_file, report_file>>

ParseCv == pc = "parse_cv" /\ DoParseCv(RunCvTexts, "parse_instructions", "failed")

\* run() without its call of parse_job_description
ParseInstructionsThenGenerate ==
    pc = "parse_instructions"
    /\ DoParseInstructions(RunDataFrames, "generate_powerpoint", "failed")

ParseInstructions ==
    pc = "parse_instructions"
    /\ DoParseInstructions(RunDataFrames, "parse_job_description", "failed")

ParseJobDescription ==
    pc = "parse_job_description"
    /\ DoParseJobDescription(RunJdInputs, "generate_powerpoint", "failed")

GeneratePowerpoint ==
    pc = "generate_powerpoint"
    /\ DoGeneratePowerpoint(RunTemplates, "generate_traceability_report", "failed")

GenerateTraceabilityReport ==
    pc = "generate_traceability_report" /\ DoGenerateTraceabilityReport("done", "failed")

Next ==
    \/ Validate
    \/ ParseCv
    \/ ParseInstructions
    \/ ParseJobDescription
    \/ GeneratePowerpoint
    \/ GenerateTraceabilityReport

Spec == Init /\ [][Next]_vars

----------------------------------------------------------------------------
(* The methods called one at a time on a constructed object, as a test of   *)
(* one method does: over valid input files, with the full input sets        *)

\* a direct caller is about to call a method
InitCall ==
    /\ Constructed
    /\ ValidateInputs
    /\ instructions_path = <<"r", "u", "l", "e", "s", ".", "x", "l", "s", "x">>
    /\ template_path = <<"t", ".", "p", "p", "t", "x">>
    /\ pc = "call"

\* _populate_slides(prs) on a presentation loaded from one of templates
DoPopulateSlides(templates, next, raised) ==
    /\ Enter("_populate_slides")
    /\ \E template \in templates :
         /\ sources' = [sources EXCEPT !.template = template]
         /\ IF PopulateRaises(template)
            THEN prs' = template /\ pc' = raised
            ELSE prs' = PopulateSlides(template, cv_data) /\ pc' = next
    /\ UNCHANGED <<cv_path, instructions_path, template_path, job_description_path, exists,
                   cv_data, instructions, job_requirements, traceability_log,
                   ppt_file, report_file>>

\* _log_traceability(step, description, data) with a str for data
DoLogTraceability(strings, next) ==
    /\ Enter("_log_traceability")
    /\ \E data \in strings, step \in {"cv_parsing", "review"} :
         /\ traceability_log' = LogTraceability(traceability_log, step, "A step", data)
         /\ sources' = [sources EXCEPT !.data = data]
    /\ pc' = next
    /\ UNCHANGED <<cv_path, instructions_path, template_path, job_description_path, exists,
                   cv_data, instructions, job_requirements, prs, ppt_file, report_file>>

CallParseCv == pc = "call" /\ DoParseCv(CvTexts, "cv_parsed", "raised")

CallParseInstructions ==
    pc = "call" /\ DoParseInstructions(DataFrames(MaxRows), "returned", "raised")

CallParseJobDescription ==
    pc = "call"
    /\ DoParseJobDescription(SeqsUpTo(JdLines, MaxJdLines), "returned", "raised")

CallPopulateSlides ==
    pc \in {"call", "cv_parsed"} /\ DoPopulateSlides(AllTemplates, "returned", "raised")

CallLogTraceability ==
    pc \in {"call", "cv_parsed"} /\ DoLogTraceability(DataStrings, "returned")

NextCall ==
    \/ CallParseCv
    \/ CallParseInstructions
    \/ CallParseJobDescription
    \/ CallPopulateSlides
    \/ CallLogTraceability

SpecCall == InitCall /\ [][NextCall]_vars

----------------------------------------------------------------------------
(* Properties of run() *)

RunOrder ==
    <<"validate_inputs", "parse_cv", "parse_instructions", "parse_job_description",
      "generate_powerpoint", "generate_traceability_report">>

\* the inputs the validation is said to reject
RejectedInputs ==
    \/ "cv" \notin exists
    \/ "instructions" \notin exists
    \/ "template" \notin exists
    \/ instructions_path = <<"r", "u", "l", "e", "s", ".", "c", "s", "v">>
    \/ template_path = <<"t", ".", "p", "p", "t">>
    \/ (job_description_path # NoneVal /\ "job_description" \notin exists)

\* C1: a missing CV, instructions or template file, an instructions file that is
\* not .xlsx/.xls, a template that is not .pptx and a missing job description
\* each fail the validation; and once the validation of a run has failed, the
\* run has aborted there: no later stage was entered, the trace log is empty and
\* neither the slide document nor the report exists.
C1_ValidationFailureAborts ==
    /\ RejectedInputs => ~ValidateInputs
    /\ (~ValidateInputs /\ stages # <<>>) =>
          /\ pc = "failed"
          /\ stages = <<"validate_inputs">>
          /\ traceability_log = <<>>
          /\ DOMAIN cv_data = {} /\ DOMAIN instructions = {} /\ job_requirements = NoneVal
          /\ prs = NoneVal
          /\ ppt_file = "none"
          /\ report_file = NoReport

\* a run aborted on an instructions file named .csv, every file being there
C1_Witness ==
    /\ pc = "failed"
    /\ stages = <<"validate_inputs">>
    /\ instructions_path = <<"r", "u", "l", "e", "s", ".", "c", "s", "v">>
    /\ {"cv", "instructions", "template"} \subseteq exists
    /\ template_path = <<"t", ".", "p", "p", "t", "x">>

\* C2: when a run has ended, either it succeeded and both the slide document and
\* the report were produced, or it failed and neither was produced.
C2_NoPartialSuccess ==
    pc \in {"done", "failed"} =>
        \/ pc = "done" /\ ppt_file = "saved" /\ report_file.state = "written"
        \/ pc = "failed" /\ ppt_file # "saved" /\ report_file.state # "written"

\* the steps a successful run logs
ExpectedSteps ==
    IF job_description_path = NoneVal
    THEN <<"cv_parsing", "instruction_parsing", "ppt_generation">>
    ELSE <<"cv_parsing", "instruction_parsing", "jd_parsing", "ppt_generation">>

\* C3: the stages of a run are entered in the order validation, CV parsing,
\* instruction parsing, job-description parsing, document generation, reporting;
\* when the report is made the trace log is cv_parsing, instruction_parsing,
\* (jd_parsing when a job description was given,) ppt_generation, so that the
\* report counts 3 steps without a job description and 4 with one; and a run
\* without a job description never fails in the job-description stage.
C3_StageOrder ==
    /\ Len(stages) <= Len(RunOrder)
    /\ stages = SubSeq(RunOrder, 1, Len(stages))
    /\ pc = "generate_traceability_report" => Steps(traceability_log) = ExpectedSteps
    /\ pc = "done" =>
          /\ stages = RunOrder
          /\ Steps(report_file.content.processing_log) = ExpectedSteps
          /\ report_file.content.summary.total_steps =
                (IF job_description_path = NoneVal THEN 3 ELSE 4)
    /\ (job_description_path = NoneVal /\ pc = "failed") =>
          stages[Len(stages)] # "parse_job_description"

\* a run with a job description that ended with a report of 4 steps
C3_Witness ==
    /\ pc = "done"
    /\ job_description_path # NoneVal
    /\ report_file.content.summary.total_steps = 4
    /\ Len(job_requirements.requirements) = 2

----------------------------------------------------------------------------
(* Properties of the methods *)

LastStage == IF stages = <<>> THEN "none" ELSE stages[Len(stages)]

\* the data strings logged so far, each with the data_summary stored for it
Logged ==
    (IF stages # <<>> /\ stages[1] = "parse_cv" /\ DOMAIN cv_data # {}
     THEN {<<StrCvData(cv_data), traceability_log[1].data_summary>>} ELSE {})
    \cup
    (IF LastStage = "parse_instructions" /\ DOMAIN instructions # {}
     THEN {<<StrInstructions(instructions, sources.df.columns),
             traceability_log[Len(traceability_log)].data_summary>>} ELSE {})
    \cup
    (IF LastStage = "parse_job_description" /\ job_requirements # NoneVal
     THEN {<<StrJobRequirements(job_requirements),
             traceability_log[Len(traceability_log)].data_summary>>} ELSE {})
    \cup
    (IF LastStage = "_log_traceability"
     THEN {<<sources.data, traceability_log[Len(traceability_log)].data_summary>>} ELSE {})

\* C4, as stated: the data_summary of a data string of more than 500 characters
\* has 501 characters plus the three of the ellipsis marker and ends with the
\* marker; that of a data string of at most 500 characters is the string.
C4_TruncationTo501 ==
    \A p \in Logged :
        LET d == p[1]
            s == p[2]
        IN  IF Len(d) > 500
            THEN Len(s) = 501 + 3 /\ SubSeq(s, Len(s) - 2, Len(s)) = <<".", ".", ".">>
            ELSE s = d

\* C4, amended: the data_summary of a data string of more than 500 characters is
\* its first 500 characters followed by the marker "...", 503 characters in all;
\* that of a data string of at most 500 characters is the string.
C4_TruncationTo500 ==
    \A p \in Logged :
        LET d == p[1]
            s == p[2]
        IN  IF Len(d) > 500
            THEN /\ Len(s) = 500 + 3
                 /\ SubSeq(s, 1, 500) = SubSeq(d, 1, 500)
                 /\ SubSeq(s, 501, 503) = <<".", ".", ".">>
            ELSE s = d

\* a data string of 501 characters was logged, and stored as 503
C4_Witness ==
    /\ LastStage = "_log_traceability"
    /\ Len(sources.data) = 501
    /\ Len(traceability_log[Len(traceability_log)].data_summary) = 503

\* the body region of the populated slide: the last text box added to it
BodyRegion == LET shapes == prs.slides[1].shapes IN shapes[Len(shapes)]

\* C5: after _populate_slides on a parsed CV, the body region holds "Summary:\n"
\* followed by the summary when the summary is not empty, and by "No summary
\* available" when it is.
C5_SummaryOrFallback ==
    (LastStage = "_populate_slides" /\ pc = "returned" /\ DOMAIN cv_data # {}) =>
        BodyRegion.text =
            SummaryHeading \o (IF cv_data.sections.summary # <<>>
                               THEN cv_data.sections.summary
                               ELSE NoSummaryAvailable)

\* C6, as stated: on a template without slides _populate_slides creates exactly
\* one slide, from layout min(6, count - 1), the last layout when count < 7; on a
\* template with slides it adds none and populates the first.
C6_OneSlideCreated ==
    LastStage = "_populate_slides" =>
        LET t == sources.template
            n == Len(t.layouts)
        IN  IF Len(t.slides) = 0
            THEN /\ pc = "returned"
                 /\ Len(prs.slides) = 1
                 /\ prs.slides[1].layout = (IF n < 7 THEN n - 1 ELSE 6)
            ELSE /\ pc = "returned"
                 /\ Len(prs.slides) = Len(t.slides)

\* C6, amended: on a template without slides and with at least one layout
\* _populate_slides creates exactly one slide, from layout min(6, count - 1), the
\* last layout when count < 7; with no layout the index is -1, the lookup raises
\* and no slide is created; on a template with slides it adds none, populates
\* the first and leaves the others as they were.
C6_OneSlideCreatedIfLayout ==
    LastStage = "_populate_slides" =>
        LET t == sources.template
            n == Len(t.layouts)
        IN  IF Len(t.slides) = 0
            THEN IF n = 0
                 THEN pc = "raised" /\ prs.slides = <<>>
                 ELSE /\ pc = "returned"
                      /\ Len(prs.slides) = 1
                      /\ prs.slides[1].layout = (IF n < 7 THEN n - 1 ELSE 6)
                      /\ Len(prs.slides[1].shapes) >= 1
            ELSE /\ pc = "returned"
                 /\ Len(prs.slides) = Len(t.slides)
                 /\ \A i \in 2..Len(t.slides) : prs.slides[i] = t.slides[i]
                 /\ prs.slides[1].layout = t.slides[1].layout
                 /\ Len(prs.slides[1].shapes) > Len(t.slides[1].shapes)

\* a template of three layouts and no slide got one slide, from layout 2
C6_Witness ==
    /\ LastStage = "_populate_slides"
    /\ pc = "returned"
    /\ sources.template.slides = <<>>
    /\ Len(sources.template.layouts) = 3
    /\ Len(prs.slides) = 1
    /\ prs.slides[1].layout = 2

\* C7: after parse_cv on a .txt file, the summary is the first 200 characters of
\* the text read (all of it when it has at most 200), the sections are the five
\* recognized ones, and the other four are empty.
C7_PlainTextSummary ==
    (cv_path \in {<<"c", "v", ".", "t", "x", "t">>, <<"i", "n", "/", "C", "V", ".", "T", "X", "T">>} /\ DOMAIN cv_data # {}) =>
        LET text == sources.cv_text
            summary == cv_data.sections.summary
        IN  /\ cv_data.raw_text = text
            /\ Len(summary) = (IF Len(text) <= 200 THEN Len(text) ELSE 200)
            /\ \A i \in 1..Len(summary) : summary[i] = text[i]
            /\ DOMAIN cv_data.sections =
                 {"summary", "experience", "education", "skills", "certifications"}
            /\ \A k \in {"experience", "education", "skills", "certifications"} :
                 cv_data.sections[k] = <<>>

\* a text of more than 200 characters was parsed
C7_Witness ==
    /\ cv_path = <<"c", "v", ".", "t", "x", "t">>
    /\ DOMAIN cv_data # {}
    /\ Len(sources.cv_text) > 200
    /\ Len(cv_data.sections.summary) = 200

\* the display name of each CV path that is not a .txt file
DisplayName ==
    CASE cv_path = <<"c", "v", ".", "p", "d", "f">> -> <<"c", "v", ".", "p", "d", "f">>
      [] cv_path = <<"i", "n", "/", "c", "v", ".", "d", "o", "c", "x">> -> <<"c", "v", ".", "d", "o", "c", "x">>
      [] cv_path = <<"c", "v", ".", "r", "t", "f">> -> <<"c", "v", ".", "r", "t", "f">>
      [] cv_path = <<"c", "v">> -> <<"c", "v">>

\* C8: in a run on a CV that is not a .txt file, parse_cv does not fail the run:
\* once it was entered, the raw text is a non-empty placeholder that ends with
\* the file's display name, and the log holds exactly one cv_parsing entry.
C8_UnsupportedCvDegrades ==
    (cv_path \in {<<"c", "v", ".", "p", "d", "f">>, <<"i", "n", "/", "c", "v", ".", "d", "o", "c", "x">>, <<"c", "v", ".", "r", "t", "f">>, <<"c", "v">>} /\ Len(stages) >= 2) =>
        /\ ~(pc = "failed" /\ LastStage = "parse_cv")
        /\ DOMAIN cv_data # {}
        /\ cv_data.raw_text # <<>>
        /\ Len(cv_data.raw_text) > Len(DisplayName)
        /\ SubSeq(cv_data.raw_text, Len(cv_data.raw_text) - Len(DisplayName) + 1,
                  Len(cv_data.raw_text)) = DisplayName
        /\ Cardinality({i \in 1..Len(traceability_log) :
                          traceability_log[i].step = "cv_parsing"}) = 1

\* a run went past parse_cv on a .docx file
C8_Witness ==
    /\ cv_path = <<"i", "n", "/", "c", "v", ".", "d", "o", "c", "x">>
    /\ LastStage = "parse_cv"
    /\ pc = "parse_instructions"
    /\ Steps(traceability_log) = <<"cv_parsing">>

\* whether a trimmed line is long enough to be a requirement
LongEnough(core) == Len(core) > 10

\* C9: after parse_job_description on a file, the requirements are the trimmed
\* lines of more than 10 characters, in the order of the file, and key_skills is
\* empty.
C9_Requirements ==
    job_requirements # NoneVal =>
        /\ job_requirements.requirements =
             SelectSeq([i \in 1..Len(sources.jd_lines) |-> sources.jd_lines[i].core], LongEnough)
        /\ job_requirements.key_skills = <<>>

\* a file of a padded line of 10 characters and one of 11: the second is kept
C9_Witness ==
    /\ job_requirements # NoneVal
    /\ sources.jd_lines =
         <<Line(<<" ", " ">>, <<"P", "y", "t", "h", "o", "n", " ", "d", "e", "v">>, <<" ", " ">>), Line(<<>>, <<"P", "y", "t", "h", "o", "n", " ", "d", "e", "v", "s">>, <<>>)>>
    /\ job_requirements.requirements = <<<<"P", "y", "t", "h", "o", "n", " ", "d", "e", "v", "s">>>>

FieldOfColumn == [Section |-> "section", Field |-> "field", Rule |-> "rule", Value |-> "value"]

\* C10: after parse_instructions on a table of N rows, there are N rules, the
\* i-th carrying the Section, Field, Rule and Value cells of the i-th row, and
\* the empty string for a column the table does not have.
C10_RulesFollowRows ==
    DOMAIN instructions # {} =>
        LET df == sources.df
            columns == {df.columns[k] : k \in 1..Len(df.columns)}
        IN  /\ Len(instructions.rules) = Len(df.rows)
            /\ \A i \in 1..Len(df.rows) : \A c \in DOMAIN FieldOfColumn :
                 instructions.rules[i][FieldOfColumn[c]] =
                     (IF c \in columns THEN df.rows[i][c] ELSE [kind |-> "str", text |-> <<>>])

\* a table of two rows without a Value column gave two rules with value ''
C10_Witness ==
    /\ DOMAIN instructions # {}
    /\ sources.df.columns = <<"Section", "Field", "Rule">>
    /\ Len(sources.df.rows) = 2
    /\ Len(instructions.rules) = 2
    /\ instructions.rules[2].value = [kind |-> "str", text |-> <<>>]
    /\ instructions.rules[1].section # instructions.rules[2].section

----------------------------------------------------------------------------
(* The document and the report *)

\* whether the log holds a ppt_generation entry
PptLogged == \E i \in 1..Len(traceability_log) : traceability_log[i].step = "ppt_generation"

\* whether generate_traceability_report was entered
ReportAttempted == \E i \in 1..Len(stages) : stages[i] = "generate_traceability_report"

\* C11: in a run, a ppt_generation entry in the trace log implies that the slide
\* document was saved; when generate_powerpoint fails (loading the template,
\* populating the slide or saving), no ppt_generation entry is logged, the
\* report stage is never entered and no report file exists; so a report, whole
\* or cut, exists only beside a saved document and lists its ppt_generation
\* entry.
C11_LoggedAfterSaved ==
    /\ PptLogged => ppt_file = "saved"
    /\ (pc = "failed" /\ LastStage = "generate_powerpoint") =>
          /\ ~PptLogged
          /\ ppt_file # "saved"
          /\ ~ReportAttempted
          /\ report_file = NoReport
    /\ ReportAttempted => (ppt_file = "saved" /\ PptLogged)
    /\ report_file # NoReport => (ppt_file = "saved" /\ PptLogged)
    /\ report_file.state = "written" =>
          \E i \in 1..Len(report_file.content.processing_log) :
              report_file.content.processing_log[i].step = "ppt_generation"

\* a run failed in prs.save, after the slide was populated: nothing was logged
\* for the document and no report was made
C11_Witness ==
    /\ pc = "failed"
    /\ LastStage = "generate_powerpoint"
    /\ prs # NoneVal
    /\ Len(prs.slides) >= 1
    /\ Len(prs.slides[1].shapes) >= 1
    /\ ppt_file = "partial"
    /\ Steps(traceability_log) = <<"cv_parsing", "instruction_parsing">>
    /\ report_file = NoReport

====
